---- MODULE Spec2Model ----
(***************************************************************************)
(* A model of the ChatWidget facade of src/src/index.ts (lines 7-384): the *)
(* script loader, the readiness poller started by load(), the bounded      *)
(* waiter of waitForWidgetReady(), the Event Bridge attachment and the     *)
(* guarded pass-through methods.  The browser's event loop is modelled by  *)
(* interleaving: every timer callback and every host call is one atomic    *)
(* step (JavaScript runs each to completion).                              *)
(***************************************************************************)
EXTENDS Naturals, Sequences, FiniteSets

(***************************************************************************)
(* Bounds of the model.                                                    *)
(***************************************************************************)
\* how many stimuli the facade gets in all: the host's calls of load(), of
\* waitForWidgetReady() and of the Method Facade (accessor included), and the
\* handle's checklist events once isLoaded is true
MaxOps == 3
\* how many of them are calls of waitForWidgetReady()
MaxWaiters == 1
\* how many callbacks of one waiter's interval are followed
MaxTicks == 23

(***************************************************************************)
(* Program constants.                                                      *)
(***************************************************************************)
\* `hops > 20`: the waiter's attempt budget
MaxHops == 20
\* the waiter's interval, in ms
WaiterIntervalMs == 200
\* the poller's interval, in ms
PollerIntervalMs == 150
\* the two console.warn calls of _checkIfWidgetLoadedBefore
NotLoadedWarnings == 2

ScriptId == "cc-widget-script"

ScriptSrc(id) == <<"https://widget.clickconnector.app/auto-load.js?widgetId=", id>>

\* the widget ids the host passes to load()
WidgetIds == {"w1", "w2"}

\* `this`, the value waitForWidgetReady resolves with
Facade == "ChatWidget"

\* what a host listener of the "loaded" event does when it is called
ListenerOutcomes == {"returns", "throws", "emits"}

\* the names the handle emits on its "check-list-event" channel
EventNames == {"cta-1", "cta-2"}

VARIABLES
    widgetId,        \* ChatWidget.widgetId ("undefined" before the first load)
    isLoaded,        \* ChatWidget.isLoaded
    document,        \* the children of document.head, in order
    ccWidget,        \* window has an own property "ccWidget"
    handleVisible,   \* window.ccWidget.isWidgetVisible
    handleListeners, \* listeners on window.ccWidget.events "check-list-event"
    handleCalls,     \* how many times the facade has used window.ccWidget
    lastHandleCall,  \* the last use: [method, args]
    loadPromises,    \* the promise of each load() call, in call order
    pollers,         \* the load() calls whose checkInterval is running
    waiters,         \* one record per waitForWidgetReady() call
    loadedEmits,     \* how many times events.emit("loaded") has run
    warnings,        \* console.warn calls
    logs,            \* console.log calls
    thrown,          \* errors thrown to the caller of a facade method
    facadeCalls,     \* Method Facade calls made so far
    blockedCalls,    \* those made while isLoaded was false
    ret,             \* what the last facade call returned
    handleEvents,    \* names the handle emitted on "check-list-event" with
                     \* isLoaded true, in order
    checkListEvents  \* names emitted on ChatWidget.checkListEvents, in order

vars == <<widgetId, isLoaded, document, ccWidget, handleVisible, handleListeners,
          handleCalls, lastHandleCall, loadPromises, pollers, waiters,
          loadedEmits, warnings, logs, thrown, facadeCalls, blockedCalls, ret,
          handleEvents, checkListEvents>>

sessionVars == <<widgetId, isLoaded>>
documentVars == <<document>>
windowVars == <<ccWidget, handleVisible, handleListeners, handleCalls, lastHandleCall>>
loadVars == <<loadPromises, pollers, loadedEmits>>
consoleVars == <<warnings, logs>>
callVars == <<thrown, facadeCalls, blockedCalls, ret>>
eventVars == <<handleEvents, checkListEvents>>

\* the stimuli so far
Ops == Len(loadPromises) + Len(waiters) + facadeCalls + Len(handleEvents)

NoCall == [method |-> "none", args |-> <<>>]

\* a lookup that never finds the element
getElementByIdFindsNothing(id) == FALSE

\* document.getElementById(id): is there an element with that id
getElementById(id) == \E i \in 1..Len(document) : document[i].id = id

ScriptCount == Cardinality({i \in 1..Len(document) : document[i].id = ScriptId})

BoolStr(b) == IF b THEN "true" ELSE "false"

(***************************************************************************)
(* The page before the facade is used.  The document is the host's: it may *)
(* already hold an element with the reserved id (placed by the page's own  *)
(* markup or by another bundle of the SDK), which is the case the guard of *)
(* load() tests for.                                                       *)
(***************************************************************************)
InitialDocuments ==
    { <<[id |-> "app", src |-> <<>>]>>,
      <<[id |-> "app", src |-> <<>>], [id |-> ScriptId, src |-> ScriptSrc("w1")]>> }

Init ==
    /\ widgetId = "undefined"
    /\ isLoaded = FALSE
    /\ document \in InitialDocuments
    /\ ccWidget = FALSE
    /\ handleVisible = FALSE
    /\ handleListeners = 0
    /\ handleCalls = 0
    /\ lastHandleCall = NoCall
    /\ loadPromises = <<>>
    /\ pollers = {}
    /\ waiters = <<>>
    /\ loadedEmits = 0
    /\ warnings = 0
    /\ logs = 0
    /\ thrown = 0
    /\ facadeCalls = 0
    /\ blockedCalls = 0
    /\ ret = "undefined"
    /\ handleEvents = <<>>
    /\ checkListEvents = <<>>

(***************************************************************************)
(* The widget script, once in the document, runs and installs the handle.  *)
(***************************************************************************)
HandleArrives ==
    /\ getElementById(ScriptId)
    /\ ~ccWidget
    /\ ccWidget' = TRUE
    /\ handleVisible' \in BOOLEAN
    /\ UNCHANGED <<handleListeners, handleCalls, lastHandleCall>>
    /\ UNCHANGED <<sessionVars, documentVars, loadVars, waiters, consoleVars, callVars,
                   eventVars>>

(***************************************************************************)
(* load(widgetId), lines 18-44, up to the return of its promise.           *)
(***************************************************************************)
\* a load() that also starts the session afresh
setWidgetIdAndReset(id) ==
    /\ widgetId' = id
    /\ isLoaded' = FALSE

\* line 19: the only write of load() to the session
setWidgetId(id) ==
    /\ widgetId' = id
    /\ UNCHANGED isLoaded

load(id) ==
    /\ Ops < MaxOps
    /\ setWidgetId(id)
    /\ IF getElementById(ScriptId)
       THEN /\ logs' = logs + 1
            /\ loadPromises' = Append(loadPromises, "fulfilled")
            /\ UNCHANGED <<document, pollers>>
       ELSE /\ document' = Append(document, [id |-> ScriptId, src |-> ScriptSrc(id)])
            /\ loadPromises' = Append(loadPromises, "pending")
            /\ pollers' = pollers \cup {Len(loadPromises) + 1}
            /\ UNCHANGED logs
    /\ UNCHANGED <<windowVars, waiters, loadedEmits, warnings, callVars, eventVars>>

(***************************************************************************)
(* onWidgetLoaded, lines 63-71: one more listener on the handle's channel. *)
(***************************************************************************)
onWidgetLoaded ==
    handleListeners' = handleListeners + 1

\* n copies of name
Repeat(name, n) == [k \in 1..n |-> name]

(***************************************************************************)
(* The handle emits `name` on "check-list-event": every listener the       *)
(* facade has added runs onCheckListEvent (lines 64-66), which emits the   *)
(* name on checkListEvents.  `listeners` is how many are attached then.    *)
(***************************************************************************)
EmitCheckListEvent(name, listeners) ==
    /\ handleEvents' = IF isLoaded' THEN Append(handleEvents, name) ELSE handleEvents
    /\ checkListEvents' = checkListEvents \o Repeat(name, listeners)

HandleEmit(name) ==
    /\ ccWidget
    /\ Ops < MaxOps
    /\ UNCHANGED <<sessionVars, documentVars, windowVars, loadVars, waiters,
                   consoleVars, callVars>>
    /\ EmitCheckListEvent(name, handleListeners)

(***************************************************************************)
(* One callback of the checkInterval started by load() call i, lines 34-42.*)
(* events.emit("loaded") runs the host's listeners synchronously; when one *)
(* throws, emit throws and the rest of the callback does not run.          *)
(***************************************************************************)
\* a callback that leaves its interval running
clearIntervalForgotten(i) == pollers' = pollers

\* clearInterval(checkInterval), line 36
clearInterval(i) == pollers' = pollers \ {i}

\* a test that finds the handle whether it is there or not
hasOwnCcWidgetAlways == TRUE

\* Object.prototype.hasOwnProperty.call(window, "ccWidget"), line 35
hasOwnCcWidget == ccWidget

(***************************************************************************)
(* What the host's "loaded" listeners do while events.emit("loaded") runs  *)
(* them (line 38): return, throw, or make the handle emit a checklist      *)
(* event (the bridge is not attached yet) and return.                      *)
(***************************************************************************)
RunLoadedListeners(outcome) ==
    IF outcome = "emits" /\ Ops < MaxOps
    THEN \E name \in EventNames : EmitCheckListEvent(name, handleListeners)
    ELSE UNCHANGED eventVars

PollerTick(i) ==
    /\ i \in pollers
    /\ IF hasOwnCcWidget
       THEN /\ clearInterval(i)
            /\ isLoaded' = TRUE
            /\ loadedEmits' = loadedEmits + 1
            /\ \E outcome \in ListenerOutcomes :
                  /\ RunLoadedListeners(outcome)
                  /\ IF outcome = "throws"
                     THEN UNCHANGED <<handleListeners, loadPromises>>
                     ELSE /\ onWidgetLoaded
                          /\ loadPromises' = [loadPromises EXCEPT ![i] = "fulfilled"]
       ELSE UNCHANGED <<pollers, isLoaded, loadedEmits, handleListeners, loadPromises,
                        eventVars>>
    /\ UNCHANGED <<widgetId, document, ccWidget, handleVisible, handleCalls,
                   lastHandleCall, waiters, consoleVars, callVars>>

(***************************************************************************)
(* The widget is opened or closed by the visitor.                          *)
(***************************************************************************)
WidgetVisibilityChanges ==
    /\ ccWidget
    /\ handleVisible' = ~handleVisible
    /\ UNCHANGED <<ccWidget, handleListeners, handleCalls, lastHandleCall>>
    /\ UNCHANGED <<sessionVars, documentVars, loadVars, waiters, consoleVars, callVars,
                   eventVars>>

(***************************************************************************)
(* get isReady, lines 77-79.                                               *)
(***************************************************************************)
isReady == isLoaded

(***************************************************************************)
(* waitForWidgetReady(), lines 133-150, up to the return of its promise.   *)
(***************************************************************************)
\* a waiter that polls even when the widget is loaded
NewWaiterAlwaysPolls ==
    [state |-> "pending", value |-> "none", timer |-> TRUE, hops |-> 0]

NewWaiter ==
    IF isLoaded
    THEN [state |-> "resolved", value |-> Facade, timer |-> FALSE, hops |-> 0]
    ELSE [state |-> "pending", value |-> "none", timer |-> TRUE, hops |-> 0]

waitForWidgetReady ==
    /\ Ops < MaxOps
    /\ Len(waiters) < MaxWaiters
    /\ waiters' = Append(waiters, NewWaiter)
    /\ UNCHANGED <<sessionVars, documentVars, windowVars, loadVars, consoleVars, callVars,
                   eventVars>>

\* res(v) and rej(v) settle a promise once: later calls change nothing
Settle(w, st, v) ==
    IF w.state = "pending" THEN [w EXCEPT !.state = st, !.value = v] ELSE w

TimeoutMessage == "Timeout: Widget not loaded yet"

(***************************************************************************)
(* One callback of the interval of waiter i, lines 139-147.                *)
(***************************************************************************)
\* a callback that tests the budget before the readiness
WaiterCallbackBudgetFirst(w) ==
    LET h == w.hops + 1
        counted == [w EXCEPT !.hops = h]
    IN  IF h > MaxHops
        THEN Settle([counted EXCEPT !.timer = FALSE], "rejected", TimeoutMessage)
        ELSE IF isReady
             THEN Settle(counted, "resolved", Facade)
             ELSE counted

WaiterCallback(w) ==
    LET h == w.hops + 1
        counted == [w EXCEPT !.hops = h]
    IN  IF isReady
        THEN Settle(counted, "resolved", Facade)
        ELSE IF h > MaxHops
             THEN Settle([counted EXCEPT !.timer = FALSE], "rejected", TimeoutMessage)
             ELSE counted

WaiterTick(i) ==
    /\ i \in 1..Len(waiters)
    /\ waiters[i].timer
    /\ waiters[i].hops < MaxTicks
    /\ waiters' = [waiters EXCEPT ![i] = WaiterCallback(waiters[i])]
    /\ UNCHANGED <<sessionVars, documentVars, windowVars, loadVars, consoleVars, callVars,
                   eventVars>>

(***************************************************************************)
(* _checkIfWidgetLoadedBefore, lines 50-61: its return value, and the      *)
(* console.warn calls it makes when the widget is not loaded.              *)
(***************************************************************************)
\* a check that always passes
checkAlwaysPasses == TRUE

checkIfWidgetLoadedBefore == isLoaded

\* a check that warns once
checkWarnsOnce ==
    warnings' = IF isLoaded THEN warnings ELSE warnings + 1

checkWarns ==
    warnings' = IF isLoaded THEN warnings ELSE warnings + NotLoadedWarnings

(***************************************************************************)
(* The body every guarded method shares (lines 157-158 and alike): return  *)
(* when the check fails, else call `method` of window.ccWidget with        *)
(* `args`.  Calling a method of a missing handle throws a TypeError.       *)
(***************************************************************************)
\* a call that leaves the arguments behind
HandleCallWithoutArgs(method, args) == [method |-> method, args |-> <<>>]

\* (window as any).ccWidget.method(...args), line 158
HandleCall(method, args) == [method |-> method, args |-> args]

Forward(method, args) ==
    /\ Ops < MaxOps
    /\ facadeCalls' = facadeCalls + 1
    /\ blockedCalls' = IF isLoaded THEN blockedCalls ELSE blockedCalls + 1
    /\ checkWarns
    /\ IF ~checkIfWidgetLoadedBefore
       THEN /\ ret' = "undefined"
            /\ UNCHANGED <<handleCalls, lastHandleCall, thrown>>
       ELSE IF ccWidget
            THEN /\ handleCalls' = handleCalls + 1
                 /\ lastHandleCall' = HandleCall(method, args)
                 /\ ret' = "undefined"
                 /\ UNCHANGED thrown
            ELSE /\ thrown' = thrown + 1
                 /\ UNCHANGED <<handleCalls, lastHandleCall, ret>>
    /\ UNCHANGED <<sessionVars, documentVars, ccWidget, handleVisible, handleListeners,
                   loadVars, waiters, logs, eventVars>>

(***************************************************************************)
(* The values the host passes.  The facade never looks into an argument,   *)
(* so each is an opaque value.                                             *)
(***************************************************************************)
HexColors == {"#112233", "#000000"}
EmbedConfigs ==
    { "{type:TRACKERS,portalUrl:p,trackerId:t1,mode:kanban}",
      "{type:KB,portalUrl:p}" }
ForceAdd == {"undefined", "true"}

setThemeColor(hexColor) == Forward("setThemeColor", <<hexColor>>)
setWidgetVisibility(visibility) == Forward("setWidgetVisibility", <<visibility>>)
identify(user) == Forward("identify", <<user>>)
setUser(user) == Forward("setUser", <<user>>)
resetSession == Forward("resetSession", <<>>)
triggerInvite(data) == Forward("triggerInvite", <<data>>)
triggerCampaign(data) == Forward("triggerCampaign", <<data>>)
dismissAllCampaigns == Forward("dismissAllCampaigns", <<>>)
createTicket(data) == Forward("createTicket", <<data>>)
setSubjectLine(subject) == Forward("setSubjectLine", <<subject>>)
navigateToArticle(articleId) == Forward("navigateToArticle", <<articleId>>)
logActivity(data) == Forward("logActivity", <<data>>)
startTour(tourId) == Forward("startTour", <<tourId>>)
showActiveChecklist == Forward("showActiveChecklist", <<>>)
activateChecklist(checkListId) == Forward("activateCheckList", <<checkListId>>)
attachTourBeforeShow(stepNumber, promise) ==
    Forward("attachTourBeforeShow", <<stepNumber, promise>>)
cancelTour == Forward("cancelTour", <<>>)
showEmbed(config) == Forward("showEmbed", <<config>>)
addToEmailSeries(sequenceId, forceAdd) ==
    Forward("addToEmailSeries", <<sequenceId, forceAdd>>)

(***************************************************************************)
(* get isWidgetVisible, lines 165-168: false when the check fails, else    *)
(* the handle's flag (a read of window.ccWidget, not a call).              *)
(***************************************************************************)
isWidgetVisible ==
    /\ Ops < MaxOps
    /\ facadeCalls' = facadeCalls + 1
    /\ blockedCalls' = IF isLoaded THEN blockedCalls ELSE blockedCalls + 1
    /\ checkWarns
    /\ IF ~checkIfWidgetLoadedBefore
       THEN /\ ret' = "false"
            /\ UNCHANGED <<handleCalls, lastHandleCall, thrown>>
       ELSE IF ccWidget
            THEN /\ handleCalls' = handleCalls + 1
                 /\ lastHandleCall' = [method |-> "isWidgetVisible", args |-> <<>>]
                 /\ ret' = BoolStr(handleVisible)
                 /\ UNCHANGED thrown
            ELSE /\ thrown' = thrown + 1
                 /\ UNCHANGED <<handleCalls, lastHandleCall, ret>>
    /\ UNCHANGED <<sessionVars, documentVars, ccWidget, handleVisible, handleListeners,
                   loadVars, waiters, logs, eventVars>>

FacadeCall ==
    \/ \E c \in HexColors : setThemeColor(c)
    \/ \E v \in {"true", "false"} : setWidgetVisibility(v)
    \/ identify("{id:u1}")
    \/ setUser("{name:n,email:e,phone:p}")
    \/ resetSession
    \/ triggerInvite("{messages:[{text:hi}]}")
    \/ triggerCampaign("{chatBotId:b1}")
    \/ dismissAllCampaigns
    \/ createTicket("{firstName:f,email:e,query:q}")
    \/ setSubjectLine("subject")
    \/ navigateToArticle("a1")
    \/ logActivity("{type:CTA Clicked,data:{}}")
    \/ startTour("tour123")
    \/ showActiveChecklist
    \/ activateChecklist("checklist123")
    \/ attachTourBeforeShow("1", "promise")
    \/ cancelTour
    \/ \E c \in EmbedConfigs : showEmbed(c)
    \/ \E f \in ForceAdd : addToEmailSeries("sequence123", f)
    \/ isWidgetVisible

Next ==
    \/ HandleArrives
    \/ \E id \in WidgetIds : load(id)
    \/ \E i \in 1..MaxOps : PollerTick(i)
    \/ WidgetVisibilityChanges
    \/ waitForWidgetReady
    \/ \E i \in 1..MaxWaiters : WaiterTick(i)
    \/ FacadeCall
    \/ \E name \in EventNames : HandleEmit(name)

Spec == Init /\ [][Next]_vars

(***************************************************************************)
(* The host's calls, recognised in a step by what they append or count.    *)
(***************************************************************************)
FacadeCallStep == facadeCalls' = facadeCalls + 1
LoadStep == Len(loadPromises') = Len(loadPromises) + 1
WaitStep == Len(waiters') = Len(waiters) + 1
WaiterTickStep(i) == i <= Len(waiters) /\ waiters'[i].hops = waiters[i].hops + 1

(***************************************************************************)
(* C1: a Method Facade call (accessor included) made while isLoaded is     *)
(* false never uses window.ccWidget and throws nothing to its caller,      *)
(* whether or not the handle is on the global scope.                       *)
(***************************************************************************)
C1_NotLoadedCallNeverReachesHandle ==
    [][(FacadeCallStep /\ ~isLoaded) =>
          /\ handleCalls' = handleCalls
          /\ lastHandleCall' = lastHandleCall
          /\ thrown' = thrown]_vars

\* calls were made with the handle present and the facade not yet loaded
C1_Witness ==
    /\ blockedCalls >= 2
    /\ ccWidget
    /\ ~isLoaded
    /\ handleCalls = 0
    /\ thrown = 0

C3_LoadPromisePendingUntilLoaded ==
    (~isLoaded /\ pollers # {}) =>
        \A i \in 1..Len(loadPromises) : loadPromises[i] = "pending"

(***************************************************************************)
(* C4: isLoaded is monotonic: no step takes it from true to false.         *)
(***************************************************************************)
C4_IsLoadedMonotonic == [][isLoaded => isLoaded']_vars

\* loaded, and since used: a forwarded call, a second load()
C4_Witness ==
    /\ isLoaded
    /\ handleCalls >= 1
    /\ Len(loadPromises) >= 2

(***************************************************************************)
(* C5: after one or more load() calls, with any widget ids, the document   *)
(* holds exactly one element with the reserved id.                         *)
(***************************************************************************)
C5_ExactlyOneScript == Len(loadPromises) >= 1 => ScriptCount = 1

C5_Witness == Len(loadPromises) >= 3 /\ ScriptCount = 1

(***************************************************************************)
(* C6 as stated: a load() call made when an element with the reserved id   *)
(* exists leaves the document, the running timers, isLoaded and widgetId   *)
(* unchanged, so that widgetId still names the widget whose script was     *)
(* inserted.  It is stated here for the calls that follow the load() that  *)
(* inserted the script (its poller is running), where widgetId names that  *)
(* widget before the call.                                                 *)
(***************************************************************************)
C6_LoadWithScriptPresentChangesNothing ==
    [][(LoadStep /\ getElementById(ScriptId) /\ pollers # {}) =>
          /\ document' = document
          /\ pollers' = pollers
          /\ \A i \in 1..Len(waiters) : waiters'[i].timer = waiters[i].timer
          /\ isLoaded' = isLoaded
          /\ widgetId' = widgetId]_vars

(***************************************************************************)
(* C7 as stated: once load() has been called and the handle is detectable, *)
(* isLoaded becomes true at the next poller tick, however load() ran: so   *)
(* while isLoaded is still false a poller is running to make that tick.    *)
(***************************************************************************)
C7_LoadedAtNextPollerTick ==
    (Len(loadPromises) >= 1 /\ ccWidget /\ ~isLoaded) => pollers # {}

(***************************************************************************)
(* C8: "loaded" is emitted at most once, and exactly once when isLoaded    *)
(* is true.                                                                *)
(***************************************************************************)
C8_LoadedFiresExactlyOnce ==
    /\ loadedEmits <= 1
    /\ isLoaded => loadedEmits = 1

C8_Witness ==
    /\ isLoaded
    /\ loadedEmits = 1
    /\ Len(loadPromises) >= 2

(***************************************************************************)
(* C9: waitForWidgetReady() called when isLoaded is true returns a promise *)
(* already resolved with the facade, and starts no timer.                  *)
(***************************************************************************)
C9_WaitWhenLoadedResolvesAtOnce ==
    [][(WaitStep /\ isLoaded) =>
          LET w == waiters'[Len(waiters')]
          IN  /\ w.state = "resolved"
              /\ w.value = Facade
              /\ ~w.timer
              /\ w.hops = 0]_vars

C9_Witness ==
    \E i \in 1..Len(waiters) :
        /\ waiters[i].state = "resolved"
        /\ waiters[i].value = Facade
        /\ waiters[i].hops = 0
        /\ ~waiters[i].timer

(***************************************************************************)
(* C10: a pending waiter resolves with the facade at the first of its      *)
(* ticks that finds isLoaded true, the last tick of its budget included;   *)
(* it is rejected only by a tick that finds isLoaded false, and once       *)
(* resolved it stays resolved.                                             *)
(***************************************************************************)
C10_WaiterResolvesWhenLoadedInBudget ==
    [][\A i \in 1..Len(waiters) :
          /\ (WaiterTickStep(i) /\ waiters[i].state = "pending" /\ isLoaded) =>
                (waiters'[i].state = "resolved" /\ waiters'[i].value = Facade)
          /\ (waiters[i].state = "pending" /\ waiters'[i].state = "rejected") =>
                ~isLoaded
          /\ waiters[i].state = "resolved" =>
                (waiters'[i].state = "resolved" /\ waiters'[i].value = Facade)]_vars

\* a waiter that started polling and was resolved by its first tick
C10_Witness ==
    \E i \in 1..Len(waiters) :
        /\ waiters[i].state = "resolved"
        /\ waiters[i].value = Facade
        /\ waiters[i].timer
        /\ waiters[i].hops = 1

(***************************************************************************)
(* C11 as stated: with isLoaded false throughout, a waiter is rejected by  *)
(* its 20th callback, after exactly 20 polls and 20 x 200 ms = 4000 ms.    *)
(***************************************************************************)
C11_RejectsOnTwentiethTick ==
    \A i \in 1..Len(waiters) :
        waiters[i].state = "rejected" =>
            /\ waiters[i].value = TimeoutMessage
            /\ waiters[i].hops = 20
            /\ waiters[i].hops * WaiterIntervalMs = 4000

(***************************************************************************)
(* C12 as stated: once a waiter's promise has settled, by success or by    *)
(* timeout, its interval is cleared (so its callback never runs again).    *)
(***************************************************************************)
C12_SettledWaiterTimerCleared ==
    \A i \in 1..Len(waiters) :
        waiters[i].state # "pending" => ~waiters[i].timer

(***************************************************************************)
(* C13 as stated: the names emitted on ChatWidget.checkListEvents are      *)
(* exactly the names the handle emitted on "check-list-event" since        *)
(* isLoaded became true (emissions during the "loaded" listeners           *)
(* included), in the same order, none lost and none doubled.               *)
(***************************************************************************)
C13_BridgeFidelity == checkListEvents = handleEvents

(***************************************************************************)
(* C14: the facade has no listener on the handle's channel while isLoaded  *)
(* is false, and never more than one.                                      *)
(***************************************************************************)
C14_BridgeAttachedAtMostOnce ==
    /\ ~isLoaded => handleListeners = 0
    /\ handleListeners <= 1

\* attached, after load() was called more than once
C14_Witness ==
    /\ handleListeners = 1
    /\ Len(loadPromises) >= 2

(***************************************************************************)
(* C15: a Method Facade call made while isLoaded is true invokes the       *)
(* corresponding method of the handle exactly once, with the caller's      *)
(* arguments in order, and invokes nothing else.                           *)
(***************************************************************************)
Forwarded(method, args) ==
    /\ handleCalls' = handleCalls + 1
    /\ lastHandleCall' = [method |-> method, args |-> args]
    /\ thrown' = thrown

C15_LoadedCallForwardedUnmodified ==
    [][isLoaded =>
        /\ \A c \in HexColors :
              setThemeColor(c) => Forwarded("setThemeColor", <<c>>)
        /\ \A v \in {"true", "false"} :
              setWidgetVisibility(v) => Forwarded("setWidgetVisibility", <<v>>)
        /\ identify("{id:u1}") => Forwarded("identify", <<"{id:u1}">>)
        /\ setUser("{name:n,email:e,phone:p}") =>
              Forwarded("setUser", <<"{name:n,email:e,phone:p}">>)
        /\ resetSession => Forwarded("resetSession", <<>>)
        /\ triggerInvite("{messages:[{text:hi}]}") =>
              Forwarded("triggerInvite", <<"{messages:[{text:hi}]}">>)
        /\ triggerCampaign("{chatBotId:b1}") =>
              Forwarded("triggerCampaign", <<"{chatBotId:b1}">>)
        /\ dismissAllCampaigns => Forwarded("dismissAllCampaigns", <<>>)
        /\ createTicket("{firstName:f,email:e,query:q}") =>
              Forwarded("createTicket", <<"{firstName:f,email:e,query:q}">>)
        /\ setSubjectLine("subject") => Forwarded("setSubjectLine", <<"subject">>)
        /\ navigateToArticle("a1") => Forwarded("navigateToArticle", <<"a1">>)
        /\ logActivity("{type:CTA Clicked,data:{}}") =>
              Forwarded("logActivity", <<"{type:CTA Clicked,data:{}}">>)
        /\ startTour("tour123") => Forwarded("startTour", <<"tour123">>)
        /\ showActiveChecklist => Forwarded("showActiveChecklist", <<>>)
        /\ activateChecklist("checklist123") =>
              Forwarded("activateCheckList", <<"checklist123">>)
        /\ attachTourBeforeShow("1", "promise") =>
              Forwarded("attachTourBeforeShow", <<"1", "promise">>)
        /\ cancelTour => Forwarded("cancelTour", <<>>)
        /\ \A c \in EmbedConfigs : showEmbed(c) => Forwarded("showEmbed", <<c>>)
        /\ \A f \in ForceAdd :
              addToEmailSeries("sequence123", f) =>
                  Forwarded("addToEmailSeries", <<"sequence123", f>>)]_vars

\* the TRACKERS config has reached showEmbed of the handle, as the only call
C15_Witness ==
    /\ isLoaded
    /\ handleCalls = 1
    /\ lastHandleCall =
          [method |-> "showEmbed",
           args |-> <<"{type:TRACKERS,portalUrl:p,trackerId:t1,mode:kanban}">>]

(***************************************************************************)
(* C16: the isWidgetVisible accessor returns false whenever isLoaded is    *)
(* false, whatever the handle's flag, and the handle's flag whenever       *)
(* isLoaded is true.                                                       *)
(***************************************************************************)
C16_VisibleDefaultsToFalse ==
    [][isWidgetVisible =>
          ret' = IF isLoaded THEN BoolStr(handleVisible) ELSE "false"]_vars

\* the accessor answered false with a visible widget on the page
C16_Witness ==
    /\ ~isLoaded
    /\ ccWidget
    /\ handleVisible
    /\ blockedCalls >= 1
    /\ ret = "false"

(***************************************************************************)
(* C17 as stated: whenever isLoaded is true the poller has stopped, the    *)
(* bridge is attached and the promise of the load() call that started the  *)
(* poller is fulfilled (the other load() promises never are pending).      *)
(***************************************************************************)
C17_DetectionPerformsAllEffects ==
    isLoaded =>
        /\ pollers = {}
        /\ loadedEmits = 1
        /\ handleListeners = 1
        /\ \A i \in 1..Len(loadPromises) : loadPromises[i] = "fulfilled"

(***************************************************************************)
(* C18: the only step that changes isLoaded is a poller tick that finds    *)
(* the handle on the global scope, so isLoaded is true only if the handle  *)
(* is there.                                                               *)
(***************************************************************************)
C18_IsLoadedSingleWriter ==
    /\ [](isLoaded => ccWidget)
    /\ [][isLoaded' # isLoaded =>
             (ccWidget /\ \E i \in pollers : PollerTick(i))]_vars

\* loaded, with a waiter and a facade call beside the poller
C18_Witness ==
    /\ isLoaded
    /\ Len(waiters) >= 1
    /\ facadeCalls >= 1

(***************************************************************************)
(* C19: at most one poller interval is running, and none once isLoaded is  *)
(* true.                                                                   *)
(***************************************************************************)
C19_AtMostOnePoller ==
    /\ Cardinality(pollers) <= 1
    /\ isLoaded => pollers = {}

\* one poller, after load() was called more than once, beside a waiter
C19_Witness ==
    /\ Cardinality(pollers) = 1
    /\ Len(loadPromises) >= 2
    /\ Len(waiters) >= 1

====
